---- MODULE Spec2Model ----
(***************************************************************************)
(* Reed-Solomon codec of src/src/reed_solomon.rs over GF(2^8).             *)
(*                                                                         *)
(* Polynomials are big-endian sequences of field elements, as in the       *)
(* source; a Rust index i is the TLA+ index i + 1.  Field elements are the *)
(* integers 0..255.  reed_solomon.rs takes its field type from a crate     *)
(* that is not part of the repository's sources; the field arithmetic here *)
(* is the repository's own GF(2^8) type, src/src/galois_field.rs           *)
(* (reduction polynomial 0x11b, generator 0x03, of order 255), which       *)
(* offers the operations the codec uses: + - * / pow recip.                *)
(*                                                                         *)
(* The source fixes ECC_SIZE = 32 and DATA_SIZE = 223.  The functions are  *)
(* written for any ECC_SIZE and DATA_SIZE with ECC_SIZE + DATA_SIZE <= 255 *)
(* ("DATA_SIZE is arbitrary", reed_solomon.rs:34-36); the model keeps the  *)
(* field at its full width and checks the codec at a small code size, so   *)
(* that every set of corrupted positions is explored.                      *)
(***************************************************************************)
EXTENDS Integers, Sequences, FiniteSets, TLC

VARIABLES
    phase,  \* "fresh": data written, not encoded; "encoded"; "received": a buffer from elsewhere;
            \* "called": a call returned; "panicked"
    buf,    \* the caller's buffer
    sent,   \* the block as encode left it (<<>> before encode)
    noise,  \* what a corrupted position is overwritten with, per position
    last    \* the last call: its name, arguments and what it returned

vars == <<phase, buf, sent, noise, last>>

\* Number of parity bytes and largest number of data bytes of the model.
ECC_SIZE == 4

DATA_SIZE == 2

BLOCK_SIZE == DATA_SIZE + ECC_SIZE

Byte == 0..255

(***************************************************************************)
(* Field arithmetic: GF(2^8) as bytes.                                     *)
(***************************************************************************)
RECURSIVE BitXor(_, _)
BitXor(a, b) ==
    IF a = 0 THEN b
    ELSE IF b = 0 THEN a
    ELSE 2 * BitXor(a \div 2, b \div 2) + ((a + b) % 2)

\* a ^ b on bytes, tabulated.
XorTab == [a \in Byte |-> [b \in Byte |-> BitXor(a, b)]]

\* a ^ b on 16-bit values, bytewise.
Xor16(a, b) == 256 * XorTab[a \div 256][b \div 256] + XorTab[a % 256][b % 256]

\* The reduction polynomial x^8 + x^4 + x^3 + x + 1.
POLYNOMIAL == 283

\* The primitive element g of the field.
GENERATOR == 3

\* Carry-less product of two bytes in 16 bits: acc ^= mask & (b << i), the mask
\* being all ones exactly when bit i of a is set.
RECURSIVE naive_wrapping_mul_loop(_, _, _, _)
naive_wrapping_mul_loop(a, b, i, acc) ==
    IF i = 8 THEN acc
    ELSE naive_wrapping_mul_loop(a, b, i + 1,
            IF (a \div (2 ^ i)) % 2 = 1
            THEN Xor16(acc, (b * (2 ^ i)) % 65536)
            ELSE acc)

naive_wrapping_mul(a, b) == naive_wrapping_mul_loop(a, b, 0, 0)

\* Number of significant bits: 16 - leading_zeros.
RECURSIVE BitLen(_)
BitLen(a) == IF a = 0 THEN 0 ELSE 1 + BitLen(a \div 2)

\* Remainder of the carry-less division of a by b (b # 0): while
\* a.leading_zeros() <= b.leading_zeros(), a ^= b << (the difference).
RECURSIVE naive_rem(_, _)
naive_rem(a, b) ==
    LET shift == BitLen(a) - BitLen(b)
    IN IF shift >= 0 THEN naive_rem(Xor16(a, b * (2 ^ shift)), b) ELSE a

naive_mul(a, b) == naive_rem(naive_wrapping_mul(a, b), POLYNOMIAL) % 256

\* naive_mul, tabulated.
MulTab == [a \in Byte |-> [b \in Byte |-> naive_mul(a, b)]]

gf_add(a, b) == XorTab[a][b]

gf_sub(a, b) == XorTab[a][b]

gf_neg(a) == a

gf_mul(a, b) == MulTab[a][b]

\* Square-and-multiply on an 8-bit exponent.
RECURSIVE gf_pow_loop(_, _, _)
gf_pow_loop(a, exp, acc) ==
    LET x1 == IF exp % 2 # 0 THEN gf_mul(acc, a) ELSE acc
        exp1 == exp \div 2
    IN IF exp1 = 0 THEN x1 ELSE gf_pow_loop(gf_mul(a, a), exp1, x1)

gf_pow(a, exp) == gf_pow_loop(a, exp, 1)

\* g^e for e in 0..255, tabulated.
GenPowTab == [e \in Byte |-> gf_pow(GENERATOR, e)]

\* a^-1 for a # 0: a^254.
RecipTab == [a \in 1..255 |-> gf_pow(a, 254)]

\* recip panics on zero; every use in the codec is on a non-zero element.
gf_recip(a) == RecipTab[a]

\* checked_div(..).unwrap_or(1): one when the divisor is zero.
gf_checked_div_or_one(a, b) == IF b = 0 THEN 1 ELSE gf_mul(a, RecipTab[b])

\* checked_div(..).unwrap_or(0): zero when the divisor is zero.
gf_checked_div_or_zero(a, b) == IF b = 0 THEN 0 ELSE gf_mul(a, RecipTab[b])

gf_div(a, b) == gf_mul(a, RecipTab[b])

(***************************************************************************)
(* Polynomial helpers.                                                     *)
(***************************************************************************)
Zeros(n) == [i \in 1..n |-> 0]

\* Horner evaluation at the point `at`: y = y * at + c for every coefficient c, first to last.
RECURSIVE poly_eval_loop(_, _, _, _)
poly_eval_loop(f, at, k, y) ==
    IF k > Len(f) THEN y
    ELSE poly_eval_loop(f, at, k + 1, gf_add(gf_mul(y, at), f[k]))

poly_eval(f, at) == poly_eval_loop(f, at, 1, 0)

poly_scale(f, c) == [i \in 1..Len(f) |-> gf_mul(f[i], c)]

\* f[f.len()-1-i] += g[g.len()-1-i] for i in 0..f.len(); f and g have the
\* same length wherever the codec calls it.
poly_add(f, g) ==
    [k \in 1..Len(f) |-> gf_add(f[k], g[Len(g) - (Len(f) - k)])]

\* The inner loop of poly_mul: f[f.len()-1-(i+j)] += fi * g[g.len()-1-j].
RECURSIVE poly_mul_inner(_, _, _, _, _)
poly_mul_inner(f, g, fi, i, j) ==
    IF j = Len(g) THEN f
    ELSE poly_mul_inner(
            [f EXCEPT ![Len(f) - (i + j)] =
                gf_add(@, gf_mul(fi, g[Len(g) - j]))],
            g, fi, i, j + 1)

\* The outer loop of poly_mul, i from f.len()-g.len() down to 0.
RECURSIVE poly_mul_outer(_, _, _)
poly_mul_outer(f, g, i) ==
    IF i < 0 THEN f
    ELSE poly_mul_outer(
            poly_mul_inner([f EXCEPT ![Len(f) - i] = 0], g, f[Len(f) - i], i, 0),
            g, i - 1)

poly_mul(f, g) == poly_mul_outer(f, g, Len(f) - Len(g))

\* The inner loop of poly_divrem: f[i+j] -= f[i] * g[j] for j in 1..g.len().
RECURSIVE poly_divrem_inner(_, _, _, _)
poly_divrem_inner(f, g, i, j) ==
    IF j = Len(g) THEN f
    ELSE poly_divrem_inner(
            [f EXCEPT ![i + j + 1] = gf_sub(@, gf_mul(f[i + 1], g[j + 1]))],
            g, i, j + 1)

\* The outer loop of poly_divrem, i in 0..(f.len()-g.len()+1).
RECURSIVE poly_divrem_outer(_, _, _)
poly_divrem_outer(f, g, i) ==
    IF i >= Len(f) - Len(g) + 1 THEN f
    ELSE IF f[i + 1] # 0
         THEN poly_divrem_outer(
                poly_divrem_inner([f EXCEPT ![i + 1] = gf_div(@, g[1])], g, i, 1),
                g, i + 1)
         ELSE poly_divrem_outer(f, g, i + 1)

poly_divrem(f, g) == poly_divrem_outer(f, g, 0)

(***************************************************************************)
(* Generator polynomial.                                                   *)
(***************************************************************************)
\* The k loop: product[len-1-(j+k)] += g[len-1-j] * root[root.len()-1-k].
RECURSIVE generator_k_loop(_, _, _, _, _)
generator_k_loop(product, g, root, j, k) ==
    IF k = Len(root) THEN product
    ELSE generator_k_loop(
            [product EXCEPT ![Len(product) - (j + k)] =
                gf_add(@, gf_mul(g[Len(g) - j], root[Len(root) - k]))],
            g, root, j, k + 1)

\* The j loop, j in 0..i+1.
RECURSIVE generator_j_loop(_, _, _, _, _)
generator_j_loop(product, g, root, i, j) ==
    IF j >= i + 1 THEN product
    ELSE generator_j_loop(generator_k_loop(product, g, root, j, 0), g, root, i, j + 1)

\* The i loop with the roots taken from g^1 on (i + 1 for i).
RECURSIVE generator_i_loop_from_one(_, _)
generator_i_loop_from_one(g, i) ==
    IF i >= ECC_SIZE THEN g
    ELSE generator_i_loop_from_one(
            generator_j_loop(Zeros(ECC_SIZE + 1), g, <<1, GenPowTab[i + 1]>>, i, 0),
            i + 1)

\* The i loop: g = g * (x - g^i).
RECURSIVE generator_i_loop(_, _)
generator_i_loop(g, i) ==
    IF i >= ECC_SIZE THEN g
    ELSE generator_i_loop(
            generator_j_loop(Zeros(ECC_SIZE + 1), g, <<1, GenPowTab[i]>>, i, 0),
            i + 1)

GENERATOR_POLY == generator_i_loop([k \in 1..(ECC_SIZE + 1) |-> IF k = ECC_SIZE + 1 THEN 1 ELSE 0], 0)

(***************************************************************************)
(* Encoder and syndromes.                                                  *)
(***************************************************************************)
\* encode with the copy's scratch region left as the caller had it (no fill(0)).
encode_unfilled(message) ==
    LET data_len == Len(message) - ECC_SIZE
        divrem == poly_divrem(message, GENERATOR_POLY)
    IN [k \in 1..Len(message) |-> IF k <= data_len THEN message[k] ELSE divrem[k]]

\* encode taking a short message as the leading bytes of a full block: the
\* parity of the data followed by zeros up to BLOCK_SIZE.
encode_right_padded(message) ==
    LET data_len == Len(message) - ECC_SIZE
        full == [k \in 1..BLOCK_SIZE |-> IF k <= data_len THEN message[k] ELSE 0]
        divrem == poly_divrem(full, GENERATOR_POLY)
    IN [k \in 1..Len(message) |->
            IF k <= data_len THEN message[k] ELSE divrem[DATA_SIZE + k - data_len]]

\* encode: the message with its trailing ECC_SIZE bytes replaced by the
\* remainder of (data, then ECC_SIZE zeros) divided by GENERATOR_POLY.
encode(message) ==
    LET data_len == Len(message) - ECC_SIZE
        divrem == poly_divrem(
                    [k \in 1..Len(message) |-> IF k <= data_len THEN message[k] ELSE 0],
                    GENERATOR_POLY)
    IN [k \in 1..Len(message) |-> IF k <= data_len THEN message[k] ELSE divrem[k]]

\* debug_assert!(f.len() >= g.len()) in poly_divrem, as encode calls it: in a
\* build with debug assertions it fails for a message of exactly ECC_SIZE
\* bytes, which encode's own assert!(message.len() >= ECC_SIZE) lets through.
\* Without debug assertions f.len() - g.len() + 1 wraps to 0, the loop does
\* not run, and encode goes on as the operator above computes.
encode_debug_assert_fails(message) == Len(message) < Len(GENERATOR_POLY)

\* find_syndromes evaluating at g^1 .. g^ECC_SIZE (i + 1 for i).
find_syndromes_shifted(f) == [k \in 1..ECC_SIZE |-> poly_eval(f, GenPowTab[k])]

\* S[i] = f(g^i) for i in 0..ECC_SIZE.
find_syndromes(f) == [k \in 1..ECC_SIZE |-> poly_eval(f, GenPowTab[k - 1])]

AllZero(S) == \A k \in 1..Len(S) : S[k] = 0

\* is_correct satisfied with one zero syndrome (any for all).
is_correct_any(codeword) ==
    \E k \in 1..ECC_SIZE : find_syndromes(codeword)[k] = 0

is_correct(codeword) == AllZero(find_syndromes(codeword))


(***************************************************************************)
(* Decoder stages.  Positions are the source's 0-based indices; the locator *)
(* value of position j in a codeword of length n is Xj = g^(n-1-j).         *)
(***************************************************************************)
\* Xj counted from the end of a full block, whatever the buffer's length.
locator_value_full_block(n, j) == GenPowTab[BLOCK_SIZE - 1 - j]

\* Xj for position j of a codeword of length n.
locator_value(n, j) == GenPowTab[n - 1 - j]

\* The fold run from the high index down, so that every S[i+1] read is the
\* one just written.
RECURSIVE forney_fold_descending_loop(_, _, _)
forney_fold_descending_loop(S, Xj, k) ==
    IF k < 1 THEN S
    ELSE forney_fold_descending_loop(
            [S EXCEPT ![k] = gf_sub(S[k + 1], gf_mul(S[k], Xj))], Xj, k - 1)

forney_fold_descending(S, Xj) == forney_fold_descending_loop(S, Xj, Len(S) - 1)

\* The fold with its operands exchanged: S[i] = S[i] - S[i+1] * Xj.
forney_fold_exchanged(S, Xj) ==
    [k \in 1..Len(S) |->
        IF k < Len(S) THEN gf_sub(S[k], gf_mul(S[k + 1], Xj)) ELSE S[k]]

\* One erasure folded out: S[i] = S[i+1] - S[i] * Xj for i in 0..S.len()-1,
\* in ascending i, so every S[i+1] read is still the old one.
forney_fold(S, Xj) ==
    [k \in 1..Len(S) |->
        IF k < Len(S) THEN gf_sub(S[k + 1], gf_mul(S[k], Xj)) ELSE S[k]]

RECURSIVE forney_loop(_, _, _, _)
forney_loop(n, S, erasures, e) ==
    IF e > Len(erasures) THEN S
    ELSE forney_loop(n, forney_fold(S, locator_value(n, erasures[e])), erasures, e + 1)

\* find_forney_syndromes draining one syndrome more than there are erasures.
find_forney_syndromes_short(codeword, S, erasures) ==
    SubSeq(forney_loop(Len(codeword), S, erasures, 1), 1, Len(S) - Len(erasures) - 1)

\* find_forney_syndromes: fold every erasure out, then drop the last
\* erasures.len() syndromes.
find_forney_syndromes(codeword, S, erasures) ==
    SubSeq(forney_loop(Len(codeword), S, erasures, 1), 1, Len(S) - Len(erasures))

RECURSIVE erasure_locator_loop(_, _, _, _)
erasure_locator_loop(n, Lambda, erasures, e) ==
    IF e > Len(erasures) THEN Lambda
    ELSE erasure_locator_loop(
            n,
            poly_mul(Lambda, <<gf_neg(locator_value(n, erasures[e])), 1>>),
            erasures, e + 1)

\* find_erasure_locator: the product of (1 - x*Xj) over the listed positions,
\* in erasures.len()+1 coefficients.
find_erasure_locator(codeword, erasures) ==
    erasure_locator_loop(
        Len(codeword),
        [k \in 1..(Len(erasures) + 1) |-> IF k = Len(erasures) + 1 THEN 1 ELSE 0],
        erasures, 1)

\* delta = S[i] + sum over j in 1..v of Lambda[len-1-j] * S[i-j].
RECURSIVE bm_delta_loop(_, _, _, _, _, _)
bm_delta_loop(S, Lambda, v, i, j, delta) ==
    IF j > v THEN delta
    ELSE bm_delta_loop(S, Lambda, v, i, j + 1,
            gf_add(delta, gf_mul(Lambda[Len(Lambda) - j], S[i - j + 1])))

bm_delta(S, Lambda, v, i) == bm_delta_loop(S, Lambda, v, i, 1, S[i + 1])

\* prev_Lambda.rotate_left(1): the first coefficient moves to the end.
rotate_left(f) == [k \in 1..Len(f) |-> IF k < Len(f) THEN f[k + 1] ELSE f[1]]

\* The iteration with prev_Lambda shifted only when the discrepancy is not
\* zero.
bm_step_shift_on_update(S, st, i) ==
    LET delta == bm_delta(S, st.Lambda, st.v, i)
        prev1 == rotate_left(st.prev)
    IN IF delta = 0
       THEN st
       ELSE IF 2 * st.v <= i
            THEN LET swapped == poly_scale(prev1, delta)
                     prev2 == poly_scale(st.Lambda, gf_recip(delta))
                 IN [Lambda |-> poly_add(swapped, poly_scale(prev2, delta)),
                     prev |-> prev2,
                     v |-> i + 1 - st.v]
            ELSE [Lambda |-> poly_add(st.Lambda, poly_scale(prev1, delta)),
                  prev |-> prev1,
                  v |-> st.v]

\* The iteration with the length change taken only when 2v < i (< for <=).
bm_step_strict(S, st, i) ==
    LET delta == bm_delta(S, st.Lambda, st.v, i)
        prev1 == rotate_left(st.prev)
    IN IF delta = 0
       THEN [Lambda |-> st.Lambda, prev |-> prev1, v |-> st.v]
       ELSE IF 2 * st.v < i
            THEN LET swapped == poly_scale(prev1, delta)
                     prev2 == poly_scale(st.Lambda, gf_recip(delta))
                 IN [Lambda |-> poly_add(swapped, poly_scale(prev2, delta)),
                     prev |-> prev2,
                     v |-> i + 1 - st.v]
            ELSE [Lambda |-> poly_add(st.Lambda, poly_scale(prev1, delta)),
                  prev |-> prev1,
                  v |-> st.v]

\* The iteration with prev_Lambda rotated to the right: the constant term
\* goes round to the front.
bm_step_rotate_right(S, st, i) ==
    LET delta == bm_delta(S, st.Lambda, st.v, i)
        prev1 == [k \in 1..Len(st.prev) |->
                    IF k = 1 THEN st.prev[Len(st.prev)] ELSE st.prev[k - 1]]
    IN IF delta = 0
       THEN [Lambda |-> st.Lambda, prev |-> prev1, v |-> st.v]
       ELSE IF 2 * st.v <= i
            THEN LET swapped == poly_scale(prev1, delta)
                     prev2 == poly_scale(st.Lambda, gf_recip(delta))
                 IN [Lambda |-> poly_add(swapped, poly_scale(prev2, delta)),
                     prev |-> prev2,
                     v |-> i + 1 - st.v]
            ELSE [Lambda |-> poly_add(st.Lambda, poly_scale(prev1, delta)),
                  prev |-> prev1,
                  v |-> st.v]

\* One iteration of the Berlekamp-Massey loop at syndrome index i, on the
\* state st = [Lambda, prev, v].
bm_step(S, st, i) ==
    LET delta == bm_delta(S, st.Lambda, st.v, i)
        prev1 == rotate_left(st.prev)
    IN IF delta = 0
       THEN [Lambda |-> st.Lambda, prev |-> prev1, v |-> st.v]
       ELSE IF 2 * st.v <= i
            THEN LET swapped == poly_scale(prev1, delta)
                     prev2 == poly_scale(st.Lambda, gf_recip(delta))
                 IN [Lambda |-> poly_add(swapped, poly_scale(prev2, delta)),
                     prev |-> prev2,
                     v |-> i + 1 - st.v]
            ELSE [Lambda |-> poly_add(st.Lambda, poly_scale(prev1, delta)),
                  prev |-> prev1,
                  v |-> st.v]

RECURSIVE bm_loop(_, _, _)
bm_loop(S, st, i) ==
    IF i >= Len(S) THEN st ELSE bm_loop(S, bm_step(S, st, i), i + 1)

bm_init(S) ==
    LET one == [k \in 1..(Len(S) + 1) |-> IF k = Len(S) + 1 THEN 1 ELSE 0]
    IN [Lambda |-> one, prev |-> one, v |-> 0]

\* The state of the loop before index i.
RECURSIVE bm_state_before(_, _)
bm_state_before(S, i) ==
    IF i = 0 THEN bm_init(S) ELSE bm_step(S, bm_state_before(S, i - 1), i - 1)

\* Number of leading zero coefficients.
RECURSIVE leading_zeros(_, _)
leading_zeros(f, k) ==
    IF k > Len(f) \/ f[k] # 0 THEN k - 1 ELSE leading_zeros(f, k + 1)

trim_leading_zeros(f) == SubSeq(f, leading_zeros(f, 1) + 1, Len(f))

\* find_error_locator: Berlekamp-Massey over the syndromes, leading zeros
\* trimmed.
find_error_locator(S) == trim_leading_zeros(bm_loop(S, bm_init(S), 0).Lambda)

\* The root search evaluating Lambda at Xj (no recip).
RECURSIVE error_locations_loop_at_Xj(_, _, _, _)
error_locations_loop_at_Xj(n, Lambda, j, found) ==
    IF j >= n THEN found
    ELSE error_locations_loop_at_Xj(n, Lambda, j + 1,
            IF poly_eval(Lambda, locator_value(n, j)) = 0
            THEN Append(found, j)
            ELSE found)

\* find_error_locations: every position j in 0..n with Lambda(Xj^-1) = 0, in
\* ascending order.
RECURSIVE error_locations_loop(_, _, _, _)
error_locations_loop(n, Lambda, j, found) ==
    IF j >= n THEN found
    ELSE error_locations_loop(n, Lambda, j + 1,
            IF poly_eval(Lambda, gf_recip(locator_value(n, j))) = 0
            THEN Append(found, j)
            ELSE found)

find_error_locations(codeword, Lambda) ==
    error_locations_loop(Len(codeword), Lambda, 0, <<>>)

Reverse(f) == [k \in 1..Len(f) |-> f[Len(f) + 1 - k]]

\* The product kept whole: no drain of the coefficients above S.len().
error_evaluator_undrained(S, Lambda) ==
    poly_mul(Zeros(Len(Lambda) - 1) \o Reverse(S), Lambda)

\* Omega(x) = S(x) * Lambda(x) mod x^S.len(): S reversed into the low end of
\* S.len()+Lambda.len()-1 coefficients, multiplied in place, the low S.len()
\* coefficients kept.
error_evaluator(S, Lambda) ==
    LET product == poly_mul(Zeros(Len(Lambda) - 1) \o Reverse(S), Lambda)
    IN SubSeq(product, Len(product) - Len(S) + 1, Len(product))

\* sum += c, i times.
RECURSIVE add_times(_, _)
add_times(c, i) == IF i = 0 THEN 0 ELSE gf_add(add_times(c, i - 1), c)

\* The formal derivative: Lambda'[len'-1-(i-1)] = i * Lambda[len-1-i].
formal_derivative(Lambda) ==
    [k \in 1..(Len(Lambda) - 1) |-> add_times(Lambda[k], Len(Lambda) - k)]

\* Yj = (-Xj * Omega(Xj^-1)) / Lambda'(Xj^-1), or 0 when the divisor is 0.
error_magnitude(n, Omega, Lambda_prime, j) ==
    LET Xj == locator_value(n, j)
    IN gf_checked_div_or_zero(
            gf_mul(gf_neg(Xj), poly_eval(Omega, gf_recip(Xj))),
            poly_eval(Lambda_prime, gf_recip(Xj)))

\* find_error_magnitudes: Forney's algorithm, one magnitude per listed position.
find_error_magnitudes(codeword, S, Lambda, error_locations) ==
    LET Omega == error_evaluator(S, Lambda)
        Lambda_prime == formal_derivative(Lambda)
    IN [e \in 1..Len(error_locations) |->
            error_magnitude(Len(codeword), Omega, Lambda_prime, error_locations[e])]

\* The corrections applied to the data bytes only, the parity bytes left as
\* received.
RECURSIVE apply_corrections_data_only(_, _, _, _)
apply_corrections_data_only(codeword, locations, magnitudes, e) ==
    IF e > Len(locations) THEN codeword
    ELSE apply_corrections_data_only(
            IF locations[e] < Len(codeword) - ECC_SIZE
            THEN [codeword EXCEPT ![locations[e] + 1] = gf_add(@, magnitudes[e])]
            ELSE codeword,
            locations, magnitudes, e + 1)

\* The corrections written at the mirrored index, codeword[len - 1 - Xj]: the
\* position taken for the exponent of its locator value.
RECURSIVE apply_corrections_mirrored(_, _, _, _)
apply_corrections_mirrored(codeword, locations, magnitudes, e) ==
    IF e > Len(locations) THEN codeword
    ELSE apply_corrections_mirrored(
            [codeword EXCEPT ![Len(codeword) - locations[e]] = gf_add(@, magnitudes[e])],
            locations, magnitudes, e + 1)

\* codeword[Xj] += Yj for every (position, magnitude) pair, in list order.
RECURSIVE apply_corrections(_, _, _, _)
apply_corrections(codeword, locations, magnitudes, e) ==
    IF e > Len(locations) THEN codeword
    ELSE apply_corrections(
            [codeword EXCEPT ![locations[e] + 1] = gf_add(@, magnitudes[e])],
            locations, magnitudes, e + 1)

(***************************************************************************)
(* The three correction entry points.  Each returns the Result and the     *)
(* buffer it leaves behind: [res, n, out].                                 *)
(***************************************************************************)
Ok(n, out) == [res |-> "Ok", n |-> n, out |-> out]

Err(out) == [res |-> "TooManyErrors", n |-> 0, out |-> out]

\* A panic (arithmetic underflow on Lambda.len() - 1).
Panic(out) == [res |-> "Panic", n |-> 0, out |-> out]

\* The tail without the final check of the syndromes.
apply_unverified(codeword, S, Lambda, locations) ==
    LET magnitudes == find_error_magnitudes(codeword, S, Lambda, locations)
    IN Ok(Len(locations), apply_corrections(codeword, locations, magnitudes, 1))

\* The tail verifying the first syndrome only.
apply_and_verify_first_syndrome(codeword, S, Lambda, locations) ==
    LET magnitudes == find_error_magnitudes(codeword, S, Lambda, locations)
        corrected == apply_corrections(codeword, locations, magnitudes, 1)
    IN IF find_syndromes(corrected)[1] # 0
       THEN Err(corrected)
       ELSE Ok(Len(locations), corrected)

\* The tail shared by the three: apply, re-find the syndromes, verify.
apply_and_verify(codeword, S, Lambda, locations) ==
    LET magnitudes == find_error_magnitudes(codeword, S, Lambda, locations)
        corrected == apply_corrections(codeword, locations, magnitudes, 1)
    IN IF ~AllZero(find_syndromes(corrected))
       THEN Err(corrected)
       ELSE Ok(Len(locations), corrected)

\* correct_erasures rejecting a list of exactly ECC_SIZE entries (>= for >).
correct_erasures_strict(codeword, erasures) ==
    IF Len(erasures) >= ECC_SIZE THEN Err(codeword)
    ELSE LET S == find_syndromes(codeword)
         IN IF AllZero(S) THEN Ok(0, codeword)
            ELSE apply_and_verify(codeword, S,
                    find_erasure_locator(codeword, erasures), erasures)

\* correct_erasures without the early return on all-zero syndromes.
correct_erasures_no_early_return(codeword, erasures) ==
    IF Len(erasures) > ECC_SIZE THEN Err(codeword)
    ELSE apply_and_verify(codeword, find_syndromes(codeword),
            find_erasure_locator(codeword, erasures), erasures)

correct_erasures(codeword, erasures) ==
    IF Len(erasures) > ECC_SIZE THEN Err(codeword)
    ELSE LET S == find_syndromes(codeword)
         IN IF AllZero(S) THEN Ok(0, codeword)
            ELSE apply_and_verify(codeword, S,
                    find_erasure_locator(codeword, erasures), erasures)

\* correct_errors rejecting exactly ECC_SIZE/2 errors (>= for >).
correct_errors_strict(codeword) ==
    LET S == find_syndromes(codeword)
    IN IF AllZero(S) THEN Ok(0, codeword)
       ELSE LET Lambda == find_error_locator(S)
            IN IF Len(Lambda) = 0 THEN Panic(codeword)
               ELSE IF (Len(Lambda) - 1) * 2 >= ECC_SIZE THEN Err(codeword)
               ELSE apply_and_verify(codeword, S, Lambda,
                        find_error_locations(codeword, Lambda))

correct_errors(codeword) ==
    LET S == find_syndromes(codeword)
    IN IF AllZero(S) THEN Ok(0, codeword)
       ELSE LET Lambda == find_error_locator(S)
            IN IF Len(Lambda) = 0 THEN Panic(codeword)
               ELSE IF (Len(Lambda) - 1) * 2 > ECC_SIZE THEN Err(codeword)
               ELSE apply_and_verify(codeword, S, Lambda,
                        find_error_locations(codeword, Lambda))

\* correct with the length of the erasure list checked only after the early
\* return on all-zero syndromes.
correct_late_length_check(codeword, erasures) ==
    LET S == find_syndromes(codeword)
    IN IF AllZero(S) THEN Ok(0, codeword)
       ELSE IF Len(erasures) > ECC_SIZE THEN Err(codeword)
       ELSE LET forney_S == find_forney_syndromes(codeword, S, erasures)
                Lambda == find_error_locator(forney_S)
            IN IF Len(Lambda) = 0 THEN Panic(codeword)
               ELSE IF (Len(Lambda) - 1) * 2 + Len(erasures) > ECC_SIZE
                    THEN Err(codeword)
               ELSE LET error_locations ==
                           find_error_locations(codeword, Lambda) \o erasures
                    IN apply_and_verify(codeword, S,
                           find_erasure_locator(codeword, error_locations),
                           error_locations)

\* correct with the capacity checked only after the corrections were applied.
correct_late_capacity_check(codeword, erasures) ==
    IF Len(erasures) > ECC_SIZE THEN Err(codeword)
    ELSE LET S == find_syndromes(codeword)
         IN IF AllZero(S) THEN Ok(0, codeword)
            ELSE LET forney_S == find_forney_syndromes(codeword, S, erasures)
                     Lambda == find_error_locator(forney_S)
                     error_locations ==
                        find_error_locations(codeword, Lambda) \o erasures
                     r == apply_and_verify(codeword, S,
                            find_erasure_locator(codeword, error_locations),
                            error_locations)
                 IN IF Len(Lambda) = 0 THEN Panic(codeword)
                    ELSE IF (Len(Lambda) - 1) * 2 + Len(erasures) > ECC_SIZE
                         THEN Err(r.out)
                    ELSE r

\* correct computing the magnitudes from the Forney syndromes (forney_S for S
\* in the call of find_error_magnitudes).
correct_magnitudes_from_forney(codeword, erasures) ==
    IF Len(erasures) > ECC_SIZE THEN Err(codeword)
    ELSE LET S == find_syndromes(codeword)
         IN IF AllZero(S) THEN Ok(0, codeword)
            ELSE LET forney_S == find_forney_syndromes(codeword, S, erasures)
                     Lambda == find_error_locator(forney_S)
                 IN IF Len(Lambda) = 0 THEN Panic(codeword)
                    ELSE IF (Len(Lambda) - 1) * 2 + Len(erasures) > ECC_SIZE
                         THEN Err(codeword)
                    ELSE LET error_locations ==
                                find_error_locations(codeword, Lambda) \o erasures
                         IN apply_and_verify(codeword, forney_S,
                                find_erasure_locator(codeword, error_locations),
                                error_locations)

\* correct without extend_from_slice: the erasures never join the located
\* positions.
correct_unmerged(codeword, erasures) ==
    IF Len(erasures) > ECC_SIZE THEN Err(codeword)
    ELSE LET S == find_syndromes(codeword)
         IN IF AllZero(S) THEN Ok(0, codeword)
            ELSE LET forney_S == find_forney_syndromes(codeword, S, erasures)
                     Lambda == find_error_locator(forney_S)
                 IN IF Len(Lambda) = 0 THEN Panic(codeword)
                    ELSE IF (Len(Lambda) - 1) * 2 + Len(erasures) > ECC_SIZE
                         THEN Err(codeword)
                    ELSE LET error_locations ==
                                find_error_locations(codeword, Lambda)
                         IN apply_and_verify(codeword, S,
                                find_erasure_locator(codeword, error_locations),
                                error_locations)

correct(codeword, erasures) ==
    IF Len(erasures) > ECC_SIZE THEN Err(codeword)
    ELSE LET S == find_syndromes(codeword)
         IN IF AllZero(S) THEN Ok(0, codeword)
            ELSE LET forney_S == find_forney_syndromes(codeword, S, erasures)
                     Lambda == find_error_locator(forney_S)
                 IN IF Len(Lambda) = 0 THEN Panic(codeword)
                    ELSE IF (Len(Lambda) - 1) * 2 + Len(erasures) > ECC_SIZE
                         THEN Err(codeword)
                    ELSE LET error_locations ==
                                find_error_locations(codeword, Lambda) \o erasures
                         IN apply_and_verify(codeword, S,
                                find_erasure_locator(codeword, error_locations),
                                error_locations)

(***************************************************************************)
(* The caller: writes data into a buffer, encodes it, the channel          *)
(* overwrites some positions, and the caller runs one of the correction    *)
(* functions, possibly with an erasure list.                               *)
(***************************************************************************)
\* First data byte of a message; the bytes after it count upwards, as in the
\* tests' (0..255).
Seeds == {1}

\* First data byte of the other block whose bytes the channel may write.
NoiseSeeds == {197}

\* Data bytes of the messages of the encoder's specification.
DataVals == {0, 1, 2, 197, 255}

\* What the scratch region holds before encode.
ScratchVals == {0, 238}

\* Bytes the channel fills a position with (zeroing, 0xFF).
FillVals == {0, 255}

\* d data bytes counting up from seed.
Data(d, seed) == [k \in 1..d |-> (seed + k - 1) % 256]

\* Buffers handed to encode: data of every length up to DATA_SIZE, followed by
\* ECC_SIZE scratch bytes.
Messages ==
    {Data(d, seed) \o [k \in 1..ECC_SIZE |-> s] :
        d \in 0..DATA_SIZE, seed \in Seeds, s \in ScratchVals}

\* Buffers handed to encode in the encoder's specification: every content over
\* DataVals.
EncodeInputs ==
    UNION {{data \o [k \in 1..ECC_SIZE |-> s] : data \in [1..d -> DataVals], s \in ScratchVals}
            : d \in 0..DATA_SIZE}

\* What the channel writes: a fill byte everywhere, or the bytes of another
\* encoded block of the same length.
Noises(n) ==
    {[k \in 1..n |-> v] : v \in FillVals}
    \cup {encode(Data(n - ECC_SIZE, seed) \o Zeros(ECC_SIZE)) : seed \in NoiseSeeds}

\* The positions (0-based) at which b differs from c.
Diff(b, c) == {j \in 0..(Len(b) - 1) : b[j + 1] # c[j + 1]}

\* The ascending list of a set of positions.
RECURSIVE AscList(_)
AscList(P) ==
    IF P = {} THEN <<>>
    ELSE LET m == CHOOSE m \in P : \A q \in P : q <= m
         IN Append(AscList(P \ {m}), m)

\* Erasure lists the caller passes for a buffer of length n corrupted at C:
\* some of the corrupted positions, or all of them and one intact position;
\* for an uncorrupted buffer, any positions.  Up to ECC_SIZE + 1 entries.
ErasureLists(n, C) ==
    {AscList(P) : P \in {Q \in SUBSET (0..(n - 1)) :
        /\ Cardinality(Q) <= ECC_SIZE + 1
        /\ \/ Q \subseteq C
           \/ C \subseteq Q /\ Cardinality(Q \ C) <= 1
           \/ C = {}}}

\* The positions the channel has overwritten so far.
Corrupted == IF sent = <<>> THEN {} ELSE Diff(buf, sent)

\* calls counts the calls made on the buffer since it was encoded.
NoCall ==
    [op |-> "none", arg |-> <<>>, erasures |-> <<>>, res |-> "none", n |-> 0,
     calls |-> 0]

Init ==
    /\ phase = "fresh"
    /\ buf \in Messages
    /\ sent = <<>>
    /\ noise \in Noises(Len(buf))
    /\ last = NoCall

Encode ==
    /\ phase = "fresh"
    /\ buf' = encode(buf)
    /\ sent' = buf'
    /\ phase' = "encoded"
    /\ UNCHANGED <<noise, last>>

\* encode in a build with debug assertions, on a buffer of ECC_SIZE bytes: the
\* call panics and the buffer is as it was.
EncodePanics ==
    /\ phase = "fresh"
    /\ encode_debug_assert_fails(buf)
    /\ phase' = "panicked"
    /\ UNCHANGED <<buf, sent, noise, last>>

\* The channel overwrites one more position.
Corrupt(j) ==
    /\ phase = "encoded"
    /\ buf[j + 1] = sent[j + 1]
    /\ noise[j + 1] # buf[j + 1]
    /\ buf' = [buf EXCEPT ![j + 1] = noise[j + 1]]
    /\ UNCHANGED <<phase, sent, noise, last>>

Returned(op, erasures, r) ==
    /\ phase' = "called"
    /\ buf' = r.out
    /\ last' = [op |-> op, arg |-> buf, erasures |-> erasures, res |-> r.res,
                n |-> r.n, calls |-> last.calls + 1]
    /\ UNCHANGED <<sent, noise>>

CorrectErasures(erasures) ==
    /\ phase = "encoded"
    /\ Returned("correct_erasures", erasures, correct_erasures(buf, erasures))

CorrectErrors ==
    /\ phase = "encoded"
    /\ Returned("correct_errors", <<>>, correct_errors(buf))

Correct(erasures) ==
    /\ phase = "encoded"
    /\ Returned("correct", erasures, correct(buf, erasures))

IsCorrect ==
    /\ phase = "encoded"
    /\ phase' = "called"
    /\ last' = [op |-> "is_correct", arg |-> buf, erasures |-> <<>>,
                res |-> IF is_correct(buf) THEN "true" ELSE "false", n |-> 0,
                calls |-> last.calls + 1]
    /\ UNCHANGED <<buf, sent, noise>>

\* The lists the caller of a correction function has to choose from: none
\* unless it holds an encoded block.
CallerLists ==
    IF phase = "encoded" THEN ErasureLists(Len(buf), Corrupted) ELSE {}

Next ==
    \/ Encode
    \/ EncodePanics
    \/ IsCorrect
    \/ \E j \in 0..(Len(buf) - 1) : Corrupt(j)
    \/ \E erasures \in CallerLists : CorrectErasures(erasures)
    \/ CorrectErrors
    \/ \E erasures \in CallerLists : Correct(erasures)

Spec == Init /\ [][Next]_vars

\* The encoder on its own, over every data content: encode, then is_correct.
InitEncode ==
    /\ phase = "fresh"
    /\ buf \in EncodeInputs
    /\ sent = <<>>
    /\ noise = <<>>
    /\ last = NoCall

NextEncode ==
    \/ Encode
    \/ EncodePanics
    \/ IsCorrect

SpecEncode == InitEncode /\ [][NextEncode]_vars

\* One buffer used over and over, as the tests do: each round the channel
\* overwrites positions of the buffer as the last round left it, within what
\* the function called next can repair, and the caller goes on with the
\* buffer the call left.
MaxRounds == 2

CorruptInRound(j) ==
    /\ Cardinality(Corrupted) < ECC_SIZE - 1
    /\ Corrupt(j)

\* correct_erasures on fewer than ECC_SIZE overwritten positions, all listed.
RoundErasures ==
    /\ phase = "encoded"
    /\ Cardinality(Corrupted) < ECC_SIZE
    /\ Returned("correct_erasures", AscList(Corrupted),
                correct_erasures(buf, AscList(Corrupted)))

\* correct_errors on at most ECC_SIZE/2 overwritten positions.
RoundErrors ==
    /\ phase = "encoded"
    /\ Cardinality(Corrupted) <= ECC_SIZE \div 2
    /\ Returned("correct_errors", <<>>, correct_errors(buf))

\* The caller has read the Result and keeps the buffer for another round; the
\* channel may write other bytes this time.
Reuse ==
    /\ phase = "called"
    /\ last.calls < MaxRounds
    /\ phase' = "encoded"
    /\ noise' \in Noises(Len(buf))
    /\ last' = [NoCall EXCEPT !.calls = last.calls]
    /\ UNCHANGED <<buf, sent>>

NextRounds ==
    \/ Encode
    \/ EncodePanics
    \/ \E j \in 0..(Len(buf) - 1) : CorruptInRound(j)
    \/ RoundErasures
    \/ RoundErrors
    \/ Reuse

SpecRounds == Init /\ [][NextRounds]_vars

\* An encoded block overwritten at fewer than ECC_SIZE positions and handed to
\* correct_erasures or correct with a careless list: some of the overwritten
\* positions, or all of them and one intact position, and one of the entries
\* listed twice; or one overwritten position mistaken for an intact one.
RepeatedLists(n, C) ==
    UNION {{l \o <<l[k]>> : k \in 1..Len(l)}
            : l \in {d \in ErasureLists(n, C) : Len(d) < ECC_SIZE}}

\* The overwritten positions with one of them mistaken for an intact one.
MistakenLists(n, C) ==
    {AscList((C \ {c}) \cup {i}) : c \in C, i \in (0..(n - 1)) \ C}

CarelessLists ==
    IF phase = "encoded"
    THEN RepeatedLists(Len(buf), Corrupted) \cup MistakenLists(Len(buf), Corrupted)
    ELSE {}

ListedErasures(erasures) ==
    /\ phase = "encoded"
    /\ Returned("correct_erasures", erasures, correct_erasures(buf, erasures))

ListedCorrect(erasures) ==
    /\ phase = "encoded"
    /\ Returned("correct", erasures, correct(buf, erasures))

NextLists ==
    \/ Encode
    \/ EncodePanics
    \/ \E j \in 0..(Len(buf) - 1) : CorruptInRound(j)
    \/ \E erasures \in CarelessLists : ListedErasures(erasures)
    \/ \E erasures \in CarelessLists : ListedCorrect(erasures)

SpecLists == Init /\ [][NextLists]_vars

\* A buffer that did not come from encode: any length from 1 to BLOCK_SIZE,
\* any content, handed to a correction function with any list of positions
\* of the buffer, repeated positions included.
\*
\* The ECC_SIZE bytes whose syndromes are those of a byte 1 standing m places
\* before the last byte, m >= n: a place outside a buffer of length n.
OutsideBuffer(n, m) ==
    Zeros(n - ECC_SIZE)
        \o SubSeq(poly_divrem(<<1>> \o Zeros(m), GENERATOR_POLY), m + 2 - ECC_SIZE, m + 1)

\* Buffers received: a fill byte everywhere, bytes counting up, and, from
\* ECC_SIZE bytes on, the syndromes of a byte outside the buffer, alone or
\* with one byte inside the buffer changed as well.
Received ==
    UNION {{[k \in 1..n |-> v] : v \in FillVals}
            \cup {Data(n, seed) : seed \in Seeds \cup NoiseSeeds}
            : n \in 1..BLOCK_SIZE}
    \cup UNION {UNION {{OutsideBuffer(n, m)}
                        \cup {[OutsideBuffer(n, m) EXCEPT ![j + 1] = gf_add(@, v)]
                                : j \in 0..(n - 1), v \in FillVals \ {0}}
                        : m \in {n, n + 1}}
                 : n \in ECC_SIZE..BLOCK_SIZE}

\* Lists of positions of a buffer of length n: up to ECC_SIZE distinct
\* positions in ascending order, such a list with one of its entries listed
\* once more at the end, and the first position listed ECC_SIZE + 1 times.
AnyListsOf(n) ==
    LET distinct == {AscList(Q) : Q \in {P \in SUBSET (0..(n - 1)) : Cardinality(P) <= ECC_SIZE}}
    IN distinct
       \cup UNION {{l \o <<l[k]>> : k \in 1..Len(l)}
                    : l \in {d \in distinct : Len(d) < ECC_SIZE}}
       \cup {Zeros(ECC_SIZE + 1)}

\* The same, tabulated by the length of the buffer.
AnyLists == [n \in 1..BLOCK_SIZE |-> AnyListsOf(n)]

InitDecode ==
    /\ phase = "received"
    /\ buf \in Received
    /\ sent = <<>>
    /\ noise = <<>>
    /\ last = NoCall

DecodeErasures(erasures) ==
    /\ phase = "received"
    /\ Returned("correct_erasures", erasures, correct_erasures(buf, erasures))

DecodeErrors ==
    /\ phase = "received"
    /\ Returned("correct_errors", <<>>, correct_errors(buf))

Decode(erasures) ==
    /\ phase = "received"
    /\ Returned("correct", erasures, correct(buf, erasures))

NextDecode ==
    \/ \E erasures \in AnyLists[Len(buf)] : DecodeErasures(erasures)
    \/ DecodeErrors
    \/ \E erasures \in AnyLists[Len(buf)] : Decode(erasures)

SpecDecode == InitDecode /\ [][NextDecode]_vars

(***************************************************************************)
(* What the properties below read off a state.                             *)
(***************************************************************************)
Range(f) == {f[k] : k \in 1..Len(f)}

CorrectionOps == {"correct_erasures", "correct_errors", "correct"}

\* The last call has returned and was a call of op.
Called(op) == phase = "called" /\ last.op = op

\* The positions at which the buffer handed to the last call differed from
\* the encoded block.
Damage == Diff(last.arg, sent)

\* Those of them the erasure list of the last call did not name.
Undeclared == Damage \ Range(last.erasures)

\* The positions whose byte the last call changed.
Changed == Diff(buf, last.arg)

(***************************************************************************)
(* Properties.                                                             *)
(***************************************************************************)
\* C1: an encoded block of any length ECC_SIZE..BLOCK_SIZE corrupted at no
\* more than ECC_SIZE/2 positions, none of them told to the decoder, comes
\* back from correct_errors with Ok and equal to the encoded block.
C1_ErrorsUpToHalf ==
    (Called("correct_errors") /\ Cardinality(Damage) <= ECC_SIZE \div 2)
        => (last.res = "Ok" /\ buf = sent)

C1_Witness ==
    /\ Called("correct_errors")
    /\ Cardinality(Damage) = ECC_SIZE \div 2
    /\ Damage # {}
    /\ last.res = "Ok"
    /\ buf = sent

\* C2: an encoded block overwritten at no more than ECC_SIZE distinct
\* positions, all of them named in the erasure list, comes back from
\* correct_erasures with Ok and equal to the encoded block; exactly ECC_SIZE
\* erasures included.
C2_ErasuresUpToEcc ==
    (/\ Called("correct_erasures")
     /\ Len(last.erasures) <= ECC_SIZE
     /\ Damage \subseteq Range(last.erasures))
        => (last.res = "Ok" /\ buf = sent)

C2_Witness ==
    /\ Called("correct_erasures")
    /\ Len(last.erasures) = ECC_SIZE
    /\ Damage = Range(last.erasures)
    /\ last.res = "Ok"
    /\ buf = sent

\* C3: whenever a correction function returns Ok, the buffer it leaves has
\* all-zero syndromes; a buffer left with a non-zero syndrome comes with
\* Err(TooManyErrors).
C3_OkMeansZeroSyndromes ==
    (phase = "called" /\ last.op \in CorrectionOps)
        => /\ last.res = "Ok" => is_correct(buf)
           /\ ~is_correct(buf) => last.res = "TooManyErrors"

\* A call that changed the buffer and returned Ok on a codeword, here one other
\* than the encoded block.
C3_Witness ==
    /\ phase = "called"
    /\ last.op \in CorrectionOps
    /\ last.res = "Ok"
    /\ Changed # {}
    /\ buf # sent
    /\ is_correct(buf)

\* C4: for every buffer of length ECC_SIZE..BLOCK_SIZE and every data
\* content, calling encode and then is_correct on the result returns true:
\* encode returns, and is_correct is true of what it left.
C4_RoundTrip ==
    /\ phase # "panicked"
    /\ (Called("is_correct") /\ last.arg = sent) => last.res = "true"

\* What holds of C4: whenever encode returns, is_correct on the buffer it
\* left, unmodified since, is true.
C4_EncodeThenIsCorrect ==
    (Called("is_correct") /\ last.arg = sent) => last.res = "true"

C4_Witness ==
    /\ Called("is_correct")
    /\ last.arg = sent
    /\ Len(sent) = BLOCK_SIZE
    /\ \E k \in 1..DATA_SIZE : sent[k] # 0
    /\ last.res = "true"

C6_TooManyErasures ==
    (/\ phase = "called"
     /\ last.op \in {"correct_erasures", "correct"}
     /\ Len(last.erasures) > ECC_SIZE)
        => (last.res = "TooManyErrors" /\ buf = last.arg)

\* Such a call of correct, on a buffer that is a valid codeword.
C6_Witness ==
    /\ Called("correct")
    /\ Len(last.erasures) > ECC_SIZE
    /\ is_correct(last.arg)
    /\ last.res = "TooManyErrors"
    /\ buf = last.arg

C8_ExactCount ==
    (phase = "called" /\ last.op \in CorrectionOps /\ last.res = "Ok")
        => last.n = Cardinality(Changed)

\* C9: on a buffer whose syndromes are all zero, the three return Ok(0) and
\* leave the buffer as it was, whatever the erasure list (of at most ECC_SIZE
\* entries) names.
C9_ZeroSyndromes ==
    (/\ phase = "called"
     /\ last.op \in CorrectionOps
     /\ is_correct(last.arg)
     /\ Len(last.erasures) <= ECC_SIZE)
        => (last.res = "Ok" /\ last.n = 0 /\ buf = last.arg)

\* A valid codeword handed to correct_erasures with a full erasure list.
C9_Witness ==
    /\ Called("correct_erasures")
    /\ is_correct(last.arg)
    /\ Len(last.erasures) = ECC_SIZE
    /\ last.res = "Ok"
    /\ last.n = 0
    /\ buf = last.arg

\* C10: correct with an empty erasure list returns what correct_errors
\* returns on the same buffer, and when that is Ok leaves the same buffer.
C10_EmptyListIsCorrectErrors ==
    (Called("correct") /\ last.erasures = <<>>)
        => LET r == correct_errors(last.arg)
           IN /\ last.res = r.res
              /\ last.n = r.n
              /\ last.res = "Ok" => buf = r.out

\* correct with an empty list repairing as many errors as the bound allows.
C10_Witness ==
    /\ Called("correct")
    /\ last.erasures = <<>>
    /\ last.res = "Ok"
    /\ last.n = ECC_SIZE \div 2
    /\ Changed # {}

\* C11: errors never accumulate when one buffer is used round after round:
\* with each round's corruption within the bound of the function called
\* (fewer than ECC_SIZE listed positions for correct_erasures, at most
\* ECC_SIZE/2 positions for correct_errors), every call returns Ok and leaves
\* the whole buffer, parity included, equal to the encoded block.
C11_NoAccumulation ==
    (phase = "called" /\ last.op \in CorrectionOps)
        => (last.res = "Ok" /\ buf = sent)

\* A later round: a burst of ECC_SIZE/2 bytes reaching into the parity region
\* repaired by correct_errors.
C11_Witness ==
    /\ Called("correct_errors")
    /\ last.calls = MaxRounds
    /\ Cardinality(Damage) = ECC_SIZE \div 2
    /\ \E j \in 0..(Len(buf) - ECC_SIZE \div 2) :
            /\ Damage = j..(j + ECC_SIZE \div 2 - 1)
            /\ j + ECC_SIZE \div 2 - 1 >= Len(buf) - ECC_SIZE
    /\ last.res = "Ok"
    /\ buf = sent

\* C12: up to ECC_SIZE errors are detected: an encoded block of any length
\* with the bytes at between 1 and ECC_SIZE positions changed makes is_correct
\* return false.
C12_DetectsUpToEcc ==
    (/\ Called("is_correct")
     /\ 1 <= Cardinality(Damage)
     /\ Cardinality(Damage) <= ECC_SIZE)
        => last.res = "false"

C12_Witness ==
    /\ Called("is_correct")
    /\ Cardinality(Damage) = ECC_SIZE
    /\ last.res = "false"

\* The remainder poly_divrem leaves in the last ECC_SIZE coefficients.
Remainder(f) ==
    SubSeq(poly_divrem(f, GENERATOR_POLY), Len(f) - ECC_SIZE + 1, Len(f))

\* The quotient it leaves in the coefficients before them.
Quotient(f) == SubSeq(poly_divrem(f, GENERATOR_POLY), 1, Len(f) - ECC_SIZE)

Parity(f) == SubSeq(f, Len(f) - ECC_SIZE + 1, Len(f))

EncodeEffect(message, after) ==
    LET data == SubSeq(message, 1, Len(message) - ECC_SIZE)
    IN /\ Len(after) = Len(message)
       /\ SubSeq(after, 1, Len(after) - ECC_SIZE) = data
       /\ Parity(after) = Remainder(data \o Zeros(ECC_SIZE))
       /\ \A v \in Byte : encode(data \o [k \in 1..ECC_SIZE |-> v]) = after
       /\ encode(after) = after

\* C14: every call of encode leaves the first len - ECC_SIZE bytes unchanged
\* and the trailing ECC_SIZE bytes the remainder of the data polynomial by
\* the generator polynomial, a parity that depends on the data bytes only, so
\* that encoding twice is encoding once.
C14_EncodeContract ==
    [][phase = "fresh" /\ phase' # "fresh"
        => phase' = "encoded" /\ EncodeEffect(buf, buf')]_vars

\* What holds of C14: the same of every call of encode that returns.
C14_WhenEncodeReturns ==
    [][phase = "fresh" /\ phase' = "encoded" => EncodeEffect(buf, buf')]_vars

\* The product of (x - g^i) for i in 0..k-1, in ECC_SIZE + 1 coefficients,
\* multiplied out by poly_mul.
RECURSIVE RootProduct(_)
RootProduct(k) ==
    IF k = 0 THEN Zeros(ECC_SIZE) \o <<1>>
    ELSE poly_mul(RootProduct(k - 1), <<1, gf_neg(GenPowTab[k - 1])>>)

GeneratorRoots == {GenPowTab[i] : i \in 0..(ECC_SIZE - 1)}

\* C15: GENERATOR_POLY has ECC_SIZE + 1 coefficients, the leading one 1, is
\* the product of (x - g^i) for i = 0 .. ECC_SIZE-1, and evaluates to zero at
\* g^0 .. g^(ECC_SIZE-1), ECC_SIZE distinct elements, and at no other field
\* element.
\* Stated of the polynomial every encoded block was divided by.
C15_GeneratorPoly ==
    phase = "encoded"
        => /\ Len(GENERATOR_POLY) = ECC_SIZE + 1
           /\ GENERATOR_POLY[1] = 1
           /\ GENERATOR_POLY = RootProduct(ECC_SIZE)
           /\ Cardinality(GeneratorRoots) = ECC_SIZE
           /\ \A a \in Byte :
                (poly_eval(GENERATOR_POLY, a) = 0) <=> (a \in GeneratorRoots)

\* The polynomial in use: a block encode left, its parity the remainder by a
\* polynomial that vanishes at g^(ECC_SIZE-1) and not at g^ECC_SIZE.
C15_Witness ==
    /\ phase = "encoded"
    /\ Len(sent) = BLOCK_SIZE
    /\ AllZero(Remainder(sent))
    /\ poly_eval(GENERATOR_POLY, GenPowTab[ECC_SIZE - 1]) = 0
    /\ poly_eval(GENERATOR_POLY, GenPowTab[ECC_SIZE]) # 0

\* The block f with zero bytes put before it up to BLOCK_SIZE.
LeftPadded(f) == Zeros(BLOCK_SIZE - Len(f)) \o f

Synthesised ==
    IF last.op = "correct_errors"
    THEN find_error_locator(find_syndromes(last.arg))
    ELSE find_error_locator(
            find_forney_syndromes(last.arg, find_syndromes(last.arg), last.erasures))

\* C17: when the capacity check fails, 2 * deg(Lambda) > ECC_SIZE in
\* correct_errors and 2 * deg(Lambda) + #erasures > ECC_SIZE in correct, the
\* call returns Err(TooManyErrors) and the buffer is byte for byte what the
\* caller passed in.
C17_CapacityCheckFails ==
    (/\ phase = "called"
     /\ last.op \in {"correct_errors", "correct"}
     /\ Len(last.erasures) <= ECC_SIZE
     /\ ~is_correct(last.arg)
     /\ 2 * (Len(Synthesised) - 1) + Len(last.erasures) > ECC_SIZE)
        => (last.res = "TooManyErrors" /\ buf = last.arg)

\* correct with erasures listed, on a buffer whose locator has a root inside
\* the buffer and, with the erasures, goes over the capacity.
C17_Witness ==
    /\ Called("correct")
    /\ last.erasures # <<>>
    /\ Len(last.erasures) <= ECC_SIZE
    /\ ~is_correct(last.arg)
    /\ 2 * (Len(Synthesised) - 1) + Len(last.erasures) > ECC_SIZE
    /\ find_error_locations(last.arg, Synthesised) # <<>>
    /\ last.res = "TooManyErrors"
    /\ buf = last.arg

\* C18: for the syndromes of a word that differs from a valid codeword at
\* v <= ECC_SIZE/2 positions, find_error_locator returns v + 1 coefficients
\* with constant term 1, the product of (1 - x*Xj) over the corrupted
\* positions, which is what find_erasure_locator builds from those positions;
\* the error count deg(Lambda) is v.
C18_MinimalLocator ==
    (Called("correct_errors") /\ Cardinality(Damage) <= ECC_SIZE \div 2)
        => LET Lambda == find_error_locator(find_syndromes(last.arg))
           IN /\ Len(Lambda) = Cardinality(Damage) + 1
              /\ Lambda[Len(Lambda)] = 1
              /\ Lambda = find_erasure_locator(last.arg, AscList(Damage))

\* ECC_SIZE/2 corrupted positions, more than one, in a buffer correct_errors
\* was called on.
C18_Witness ==
    /\ Called("correct_errors")
    /\ Cardinality(Damage) = ECC_SIZE \div 2
    /\ Cardinality(Damage) > 1
    /\ Len(find_error_locator(find_syndromes(last.arg))) = ECC_SIZE \div 2 + 1

\* The syndromes the last call ran find_error_locator on.
LocatorInput ==
    IF last.op = "correct_errors"
    THEN find_syndromes(last.arg)
    ELSE find_forney_syndromes(last.arg, find_syndromes(last.arg), last.erasures)

\* The discrepancy at index i: S[i] plus the sum over j in 1..v of the
\* coefficient of x^j of Lambda times S[i-j].
RECURSIVE DiscrepancySum(_, _, _, _)
DiscrepancySum(S, Lambda, i, j) ==
    IF j = 0 THEN S[i + 1]
    ELSE gf_add(DiscrepancySum(S, Lambda, i, j - 1),
                gf_mul(Lambda[Len(Lambda) - j], S[i - j + 1]))

\* The step rule between the state before index i and the state after it.
StepRule(S, i) ==
    LET old == bm_state_before(S, i)
        new == bm_state_before(S, i + 1)
        delta == DiscrepancySum(S, old.Lambda, i, old.v)
        shifted == rotate_left(old.prev)
    IN /\ delta = 0
            => new.Lambda = old.Lambda /\ new.v = old.v /\ new.prev = shifted
       /\ (delta # 0 /\ 2 * old.v <= i)
            => /\ new.v = i + 1 - old.v
               /\ new.prev = poly_scale(old.Lambda, gf_recip(delta))
               /\ new.Lambda = poly_add(poly_scale(shifted, delta),
                                        poly_scale(new.prev, delta))
       /\ (delta # 0 /\ 2 * old.v > i)
            => /\ new.v = old.v
               /\ new.prev = shifted
               /\ new.Lambda = poly_add(old.Lambda, poly_scale(shifted, delta))
       /\ new.v >= old.v
       /\ new.v <= i + 1
       /\ new.Lambda[Len(new.Lambda)] = 1

\* C19: the Berlekamp-Massey step rule, at every syndrome index of every run
\* of find_error_locator: prev_Lambda shifted by one each iteration; a zero
\* discrepancy leaves Lambda and v; a non-zero one with 2v <= i swaps Lambda
\* and prev_Lambda and sets v to i + 1 - v, with 2v > i leaves v; in both
\* delta * prev_Lambda is added to Lambda; v never decreases, v <= i + 1
\* after index i, and the constant term of Lambda stays 1.
C19_StepRule ==
    (/\ phase = "called"
     /\ last.op \in {"correct_errors", "correct"}
     /\ Len(last.erasures) <= ECC_SIZE)
        => \A i \in 0..(Len(LocatorInput) - 1) : StepRule(LocatorInput, i)

\* A run that takes each of the three branches.
C19_Witness ==
    /\ Called("correct_errors")
    /\ LET S == LocatorInput
           Delta(i) == DiscrepancySum(S, bm_state_before(S, i).Lambda, i,
                                      bm_state_before(S, i).v)
       IN /\ \E i \in 0..(Len(S) - 1) : Delta(i) = 0
          /\ \E i \in 0..(Len(S) - 1) :
                Delta(i) # 0 /\ 2 * bm_state_before(S, i).v <= i
          /\ \E i \in 0..(Len(S) - 1) :
                Delta(i) # 0 /\ 2 * bm_state_before(S, i).v > i

\* Every order the elements of P can be listed in.
RECURSIVE Perms(_)
Perms(P) ==
    IF P = {} THEN {<<>>}
    ELSE UNION {{<<j>> \o p : p \in Perms(P \ {j})} : j \in P}

\* The orders of the indices 1..k of a list of k entries, for every k up to
\* ECC_SIZE.
IndexOrders == [k \in 0..ECC_SIZE |-> Perms(1..k)]

\* The list f taken in the order p of its indices.
Reordered(f, p) == [k \in 1..Len(f) |-> f[p[k]]]

\* C20: find_forney_syndromes does not depend on the order of the erasure
\* list: for the syndromes and length of a buffer, it returns the same
\* sequence for every permutation of the same positions.
C20_ForneyOrder ==
    (Called("correct") /\ Len(last.erasures) <= ECC_SIZE)
        => LET S == find_syndromes(last.arg)
               forney_S == find_forney_syndromes(last.arg, S, last.erasures)
           IN \A p \in IndexOrders[Len(last.erasures)] :
                find_forney_syndromes(last.arg, S, Reordered(last.erasures, p))
                    = forney_S

\* Three or more erasures listed in a buffer with a further error, so that
\* what is returned is not all zero.
C20_Witness ==
    /\ Called("correct")
    /\ Len(last.erasures) >= 3
    /\ Len(last.erasures) < ECC_SIZE
    /\ ~AllZero(LocatorInput)

\* C21: find_forney_syndromes with e <= ECC_SIZE erasures returns ECC_SIZE - e
\* elements; when every corrupted position of an otherwise valid codeword is
\* in the erasure list they are all zero, and the locator correct synthesises
\* from them is the constant 1: no unknown error.  With e = ECC_SIZE what is
\* returned is empty.
C21_ErasuresFoldedOut ==
    (Called("correct") /\ Len(last.erasures) <= ECC_SIZE)
        => /\ Len(LocatorInput) = ECC_SIZE - Len(last.erasures)
           /\ Damage \subseteq Range(last.erasures)
                => /\ AllZero(LocatorInput)
                   /\ Synthesised = <<1>>
           /\ Len(last.erasures) = ECC_SIZE => LocatorInput = <<>>

\* Corrupted positions, all listed next to an intact one, with syndromes left
\* over after the fold.
C21_Witness ==
    /\ Called("correct")
    /\ Damage # {}
    /\ Damage \subseteq Range(last.erasures)
    /\ Damage # Range(last.erasures)
    /\ Len(last.erasures) < ECC_SIZE
    /\ ~is_correct(last.arg)
    /\ AllZero(LocatorInput)
    /\ Synthesised = <<1>>

\* The coefficient of x^m in the product of (1 - x*Xj) over the first t
\* entries of the list: c(m, t) = c(m, t-1) - Xt * c(m-1, t-1).
RECURSIVE LocatorCoefficient(_, _, _, _)
LocatorCoefficient(n, positions, m, t) ==
    IF m = 0 THEN 1
    ELSE IF t = 0 THEN 0
    ELSE gf_sub(LocatorCoefficient(n, positions, m, t - 1),
                gf_mul(locator_value(n, positions[t]),
                       LocatorCoefficient(n, positions, m - 1, t - 1)))

\* The product of (1 - x*Xj) over the list, big-endian in Len + 1 coefficients.
LocatorProduct(n, positions) ==
    [k \in 1..(Len(positions) + 1) |->
        LocatorCoefficient(n, positions, Len(positions) + 1 - k, Len(positions))]

\* C22: for a list of k <= ECC_SIZE distinct positions of a buffer of length
\* n, find_erasure_locator returns the product of (1 - x*Xj) over the list in
\* k + 1 coefficients with constant term 1, and find_error_locations on that
\* locator returns the listed positions, each once, in ascending order.
C22_LocatorAndRootSearch ==
    (Called("correct_erasures") /\ Len(last.erasures) <= ECC_SIZE)
        => LET Lambda == find_erasure_locator(last.arg, last.erasures)
           IN /\ Len(Lambda) = Len(last.erasures) + 1
              /\ Lambda[Len(Lambda)] = 1
              /\ Lambda = LocatorProduct(Len(last.arg), last.erasures)
              /\ find_error_locations(last.arg, Lambda)
                    = AscList(Range(last.erasures))

\* ECC_SIZE positions of a full block, the first and the last among them.
C22_Witness ==
    /\ Called("correct_erasures")
    /\ Len(last.arg) = BLOCK_SIZE
    /\ Len(last.erasures) = ECC_SIZE
    /\ {0, BLOCK_SIZE - 1} \subseteq Range(last.erasures)
    /\ find_error_locations(last.arg, find_erasure_locator(last.arg, last.erasures))
            = last.erasures

\* The positions the root search of the last call found for the locator it
\* synthesised.
Located == find_error_locations(last.arg, Synthesised)

\* C23: in correct_errors and correct, when the number of positions the root
\* search finds in the buffer differs from the degree of the synthesised
\* locator, the call returns Err(TooManyErrors), never Ok.
C23_RootCountMismatch ==
    (/\ phase = "called"
     /\ last.op \in {"correct_errors", "correct"}
     /\ Len(last.erasures) <= ECC_SIZE
     /\ Len(Located) # Len(Synthesised) - 1)
        => last.res = "TooManyErrors"

\* A locator within the capacity with a root in the buffer and one missing:
\* corrections were applied and the verification refused them.
C23_Witness ==
    /\ Called("correct_errors")
    /\ 2 * (Len(Synthesised) - 1) <= ECC_SIZE
    /\ Located # <<>>
    /\ Len(Located) < Len(Synthesised) - 1
    /\ Changed # {}
    /\ last.res = "TooManyErrors"

\* The positions the last call computed magnitudes for: the erasure list in
\* correct_erasures, the located positions in correct_errors, the located
\* positions followed by the erasure list in correct.
FinalLocations ==
    IF last.op = "correct_erasures" THEN last.erasures
    ELSE IF last.op = "correct_errors" THEN Located
    ELSE Located \o last.erasures

\* The locator it computed them with: the synthesised one in correct_errors,
\* the one built over those positions in the other two.
FinalLocator ==
    IF last.op = "correct_errors" THEN Synthesised
    ELSE find_erasure_locator(last.arg, FinalLocations)

\* The last call got as far as find_error_magnitudes.
ReachedMagnitudes ==
    /\ phase = "called"
    /\ last.op \in CorrectionOps
    /\ Len(last.erasures) <= ECC_SIZE
    /\ ~is_correct(last.arg)
    /\ last.op = "correct_errors" => 2 * (Len(Synthesised) - 1) <= ECC_SIZE
    /\ last.op = "correct"
            => 2 * (Len(Synthesised) - 1) + Len(last.erasures) <= ECC_SIZE

\* The Forney denominator of position j: Lambda'(Xj^-1).
Denominator(j) ==
    poly_eval(formal_derivative(FinalLocator),
              gf_recip(locator_value(Len(last.arg), j)))

\* C24 as stated: when the Forney denominator is zero for a listed position,
\* the call returns Err(TooManyErrors).
C24_ZeroDenominatorIsErr ==
    (/\ ReachedMagnitudes
     /\ \E j \in Range(FinalLocations) : Denominator(j) = 0)
        => last.res = "TooManyErrors"

\* C24 as amended: when the Forney denominator is zero for a listed position,
\* the call does not panic and leaves the byte at that position as it was;
\* and when that byte was a corrupted one of an otherwise valid codeword
\* whose corrupted positions are all in the list, the call returns
\* Err(TooManyErrors).
C24_ZeroDenominator ==
    ReachedMagnitudes
        => \A j \in Range(FinalLocations) :
                Denominator(j) = 0
                    => /\ last.res \in {"Ok", "TooManyErrors"}
                       /\ buf[j + 1] = last.arg[j + 1]
                       /\ (j \in Damage /\ Damage \subseteq Range(last.erasures))
                            => last.res = "TooManyErrors"

\* A corrupted position listed twice next to another listed corrupted
\* position: the other one gets a magnitude, and the call fails.
C24_Witness ==
    /\ Called("correct_erasures")
    /\ ReachedMagnitudes
    /\ Damage \subseteq Range(last.erasures)
    /\ \E j \in Damage : Denominator(j) = 0
    /\ \E j \in Damage : Denominator(j) # 0
    /\ last.res = "TooManyErrors"

\* The coefficient of x^d of the big-endian polynomial f (0 above its length).
CoefficientOf(f, d) == IF d < Len(f) THEN f[Len(f) - d] ELSE 0

\* The coefficient of x^d of S(x) * Lambda(x), S(x) being the sum of
\* S[i] * x^i: the sum over i of S[i] times the coefficient of x^(d-i) of
\* Lambda.
RECURSIVE ProductCoefficient(_, _, _, _)
ProductCoefficient(S, Lambda, d, i) ==
    IF i < 0 THEN 0
    ELSE gf_add(ProductCoefficient(S, Lambda, d, i - 1),
                IF i < Len(S) /\ d - i < Len(Lambda)
                THEN gf_mul(S[i + 1], CoefficientOf(Lambda, d - i))
                ELSE 0)

\* The last call ran find_error_magnitudes with the locator of distinct
\* positions, at most ECC_SIZE of them, that cover every corrupted position.
MagnitudesOfCoveredDamage ==
    /\ ReachedMagnitudes
    /\ Len(FinalLocations) <= ECC_SIZE
    /\ Cardinality(Range(FinalLocations)) = Len(FinalLocations)
    /\ Damage \subseteq Range(FinalLocations)
    /\ FinalLocator = find_erasure_locator(last.arg, FinalLocations)

\* C25 as stated: the evaluator is S(x) * Lambda(x) mod x^(2 * ECC_SIZE).
C25_EvaluatorModTwiceEcc ==
    MagnitudesOfCoveredDamage
        => \A S \in {find_syndromes(last.arg)} : \A Lambda \in {FinalLocator} :
            \A Omega \in {error_evaluator(S, Lambda)} :
                \A d \in 0..(2 * ECC_SIZE - 1) :
                    CoefficientOf(Omega, d) = ProductCoefficient(S, Lambda, d, d)

\* C25 as amended: the evaluator is S(x) * Lambda(x) mod x^ECC_SIZE, the
\* ECC_SIZE low-degree terms (the syndrome length), and with it the magnitude
\* of every listed position is the true error value there: the encoded byte
\* minus the received one, zero at an intact position; no denominator is
\* zero.
C25_EvaluatorAndMagnitudes ==
    MagnitudesOfCoveredDamage
        => \A S \in {find_syndromes(last.arg)} : \A Lambda \in {FinalLocator} :
            \A Omega \in {error_evaluator(S, Lambda)} :
            \A positions \in {FinalLocations} :
            \A Y \in {find_error_magnitudes(last.arg, S, Lambda, positions)} :
              /\ Len(Omega) = ECC_SIZE
              /\ \A d \in 0..(ECC_SIZE - 1) :
                    CoefficientOf(Omega, d) = ProductCoefficient(S, Lambda, d, d)
              /\ \A e \in 1..Len(positions) :
                    /\ poly_eval(formal_derivative(Lambda),
                                 gf_recip(locator_value(Len(last.arg), positions[e]))) # 0
                    /\ Y[e] = gf_sub(sent[positions[e] + 1], last.arg[positions[e] + 1])

\* ECC_SIZE listed positions, one of them intact, and a product with a term
\* above the syndrome length.
C25_Witness ==
    /\ Called("correct_erasures")
    /\ MagnitudesOfCoveredDamage
    /\ Len(FinalLocations) = ECC_SIZE
    /\ Damage # Range(FinalLocations)
    /\ \E d \in ECC_SIZE..(2 * ECC_SIZE - 1) :
            ProductCoefficient(find_syndromes(last.arg), FinalLocator, d, d) # 0
    /\ buf = sent

\* C26: correct uses the Forney syndromes only to synthesise the locator of
\* the unknown errors; the magnitudes come from the raw syndromes of the
\* received word and the locator rebuilt over the found positions followed
\* by the listed erasures.  Whenever the capacity check passes, the result
\* and the buffer of correct(codeword, E) are those of
\* correct_erasures(codeword, found positions followed by E).
C26_CorrectIsCorrectErasures ==
    (Called("correct") /\ ReachedMagnitudes)
        => \A positions \in {FinalLocations} :
            \A S \in {find_syndromes(last.arg)} :
            \A r \in {correct_erasures(last.arg, positions)} :
              /\ last.res = r.res
              /\ last.n = r.n
              /\ buf = r.out
              /\ buf = apply_corrections(last.arg, positions,
                            find_error_magnitudes(last.arg, S,
                                find_erasure_locator(last.arg, positions), positions),
                            1)

\* An unknown error found next to listed erasures, and repaired.
C26_Witness ==
    /\ Called("correct")
    /\ ReachedMagnitudes
    /\ last.erasures # <<>>
    /\ Located # <<>>
    /\ ~AllZero(LocatorInput)
    /\ last.res = "Ok"
    /\ Changed # {}

\* C27: whatever the buffer, when correct_errors returns Ok(n) with n > 0,
\* n is at most ECC_SIZE/2, n is the degree of the synthesised locator and
\* the number of positions the root search found, and the buffer returned
\* differs from the buffer passed in at exactly n positions: every magnitude
\* applied is non-zero.
C27_BoundedDistance ==
    (Called("correct_errors") /\ last.res = "Ok" /\ last.n > 0)
        => /\ 2 * last.n <= ECC_SIZE
           /\ last.n = Len(Synthesised) - 1
           /\ last.n = Len(Located)
           /\ Cardinality(Changed) = last.n
           /\ Changed = Range(Located)

\* A buffer that encode never wrote, repaired at ECC_SIZE/2 positions: as
\* many as the locator has roots, each byte changed.
C27_Witness ==
    /\ Called("correct_errors")
    /\ last.res = "Ok"
    /\ last.n = ECC_SIZE \div 2
    /\ Len(Synthesised) - 1 = last.n
    /\ Changed = Range(Located)
    /\ Cardinality(Changed) = last.n

\* C28: correct_erasures does not hide an undeclared error: on an encoded
\* block corrupted at a position that is not in the erasure list, with the
\* listed and the corrupted positions together at most ECC_SIZE distinct
\* positions, it returns Err(TooManyErrors), not Ok.
C28_UndeclaredErrorIsErr ==
    (/\ Called("correct_erasures")
     /\ Undeclared # {}
     /\ Cardinality(Damage \cup Range(last.erasures)) <= ECC_SIZE)
        => last.res = "TooManyErrors"

\* A list that names an intact position in place of a corrupted one, ECC_SIZE
\* positions in all; magnitudes were applied and refused.
C28_Witness ==
    /\ Called("correct_erasures")
    /\ Cardinality(Undeclared) = 1
    /\ Range(last.erasures) \ Damage # {}
    /\ Cardinality(Damage \cup Range(last.erasures)) = ECC_SIZE
    /\ Changed # {}
    /\ last.res = "TooManyErrors"

\* The positions the last call may write to: the listed ones in
\* correct_erasures, the located ones in correct_errors, both in correct;
\* none when the call returned before the root search.
Writable ==
    IF ~ReachedMagnitudes THEN {} ELSE Range(FinalLocations)

\* C29: the correction functions write only where they located an error or
\* were told of one: correct_erasures changes no byte at a position absent
\* from the erasure list, correct_errors only bytes at positions the root
\* search returned, correct only bytes at positions of either kind; on
\* failing calls as on successful ones, and the length of the buffer stays.
C29_WritesOnlyWhereLocated ==
    (phase = "called" /\ last.op \in CorrectionOps)
        => /\ Len(buf) = Len(last.arg)
           /\ Changed \subseteq Writable
           /\ last.op = "correct_erasures" => Changed \subseteq Range(last.erasures)

\* A failing call of correct that wrote to the buffer, at listed positions,
\* and left the other bytes alone.
C29_Witness ==
    /\ Called("correct")
    /\ last.res = "TooManyErrors"
    /\ Changed # {}
    /\ Changed \subseteq Range(last.erasures)
    /\ Cardinality(Range(last.erasures)) < Len(buf)

\* What keeps iteration i of find_error_locator on the syndromes S from
\* panicking or losing a coefficient: S[i - j] is read for j up to v only, so
\* v <= i; the coefficient rotate_left takes round to the end is zero; the
\* reciprocal of the discrepancy is taken of a non-zero element.
SafeIteration(S, i) ==
    \A st \in {bm_state_before(S, i)} :
        /\ st.v <= i
        /\ st.prev[1] = 0
        /\ \A delta \in {DiscrepancySum(S, st.Lambda, i, st.v)} :
                (delta # 0 /\ 2 * st.v <= i) => delta \in DOMAIN RecipTab

\* C30: every call of the three correction functions, on a buffer of any
\* length from 1 to BLOCK_SIZE with any content and any list of positions of
\* the buffer (repeats allowed), returns Ok or Err(TooManyErrors) and does
\* not panic: no Xj is zero, so every reciprocal of an Xj exists; every
\* iteration of find_error_locator reads S[i - j] with j <= i, takes the
\* reciprocal of a non-zero discrepancy only, and rotates no non-zero
\* coefficient of prev_Lambda round; the locator keeps at least its constant
\* term, so Lambda.len() - 1 does not underflow.
C30_NoPanic ==
    (phase = "called" /\ last.op \in CorrectionOps)
        => /\ last.res \in {"Ok", "TooManyErrors"}
           /\ Len(buf) = Len(last.arg)
           /\ \A j \in 0..(Len(last.arg) - 1) :
                locator_value(Len(last.arg), j) \in DOMAIN RecipTab
           /\ (/\ last.op \in {"correct_errors", "correct"}
               /\ Len(last.erasures) <= ECC_SIZE
               /\ ~is_correct(last.arg))
                => \A S \in {LocatorInput} :
                    /\ \A i \in 0..(Len(S) - 1) : SafeIteration(S, i)
                    /\ Len(find_error_locator(S)) >= 1

\* correct on a buffer shorter than ECC_SIZE with a position listed twice:
\* the locator loop ran with a length change, a Forney denominator was zero,
\* and the call returned Err.
C30_Witness ==
    /\ Called("correct")
    /\ Len(last.arg) < ECC_SIZE
    /\ Cardinality(Range(last.erasures)) < Len(last.erasures)
    /\ ReachedMagnitudes
    /\ Len(Synthesised) > 1
    /\ \E j \in Range(FinalLocations) : Denominator(j) = 0
    /\ last.res = "TooManyErrors"
====
